---- MODULE Spec2Model ----
(***************************************************************************)
(* State-machine model of src/main.py: a Telegram bot that looks up anime  *)
(* (AniList) and movies (TMDB), with an in-memory query-result cache       *)
(* (_cache), per-user preferences in PostgreSQL (user_settings), a global  *)
(* search counter (global_stats) and pending selections kept in the        *)
(* framework's per-user dictionary (context.user_data).                    *)
(*                                                                         *)
(* One task per inbound update.  A task is suspended at every await; the   *)
(* steps of the model are the pieces of a handler between two awaits that  *)
(* read or write state shared with other tasks (the store, the cache, the  *)
(* pending selections).  Outbound Telegram calls only append to what the   *)
(* step sent, so they are folded into the step that issues them.           *)
(*                                                                         *)
(* main() builds the Application without concurrent_updates, so the update *)
(* fetcher awaits the handler of one update before it takes the next:      *)
(* Spec.  SpecConcurrent lets the tasks of several updates overlap at      *)
(* their awaits; every behaviour of Spec is one of SpecConcurrent but for  *)
(* the update budget.  SpecAdapter calls the provider adapters directly.   *)
(*                                                                         *)
(* Texts are sequences of one-character strings, so that lower(), strip()  *)
(* and " ".join() are computed character by character.                     *)
(***************************************************************************)
EXTENDS Integers, Sequences, FiniteSets, Bags, TLC

\* ------------------------------------------------------------------ bounds
\* Updates (commands and button presses) delivered in one run when they are
\* handled one at a time.
MaxUpdates == 4
\* Updates delivered in one run, and handler tasks in flight at the same
\* time, when updates are handled concurrently.
MaxConcurrentUpdates == 3
MaxTasks == 2

\* --------------------------------------------------------------- constants
\* Users known to the model; AUTHORIZED_USER_IDS is the parsed OWNER_IDS.
Users == {1, 2, 3}
AUTHORIZED_USER_IDS == {1, 2}

FR == <<"f", "r">>
EN == <<"e", "n">>
ES == <<"e", "s">>
\* context.args[0] not in ["fr", "en", "es"]
SUPPORTED_LANGUAGES == {FR, EN, ES}

\* The column defaults of CREATE TABLE user_settings.
DDL_DEFAULT_LANGUAGE_En == <<"e", "n">>

DDL_DEFAULT_LANGUAGE == <<"f", "r">>
DDL_DEFAULT_FOOTER == <<"@", "W", "o", "r", "l", "d", "Z", "P", "r", "i", "m", "e">>
\* The literals get_user_settings returns after inserting the default row.
RETURNED_DEFAULT_LANGUAGE == <<"f", "r">>
RETURNED_DEFAULT_FOOTER == <<"@", "W", "o", "r", "l", "d", "Z", "P", "r", "i", "m", "e">>

\* ------------------------------------------------------------------- texts
Whitespace == {" "}

LowerChar(c) ==
  CASE c = "A" -> "a"
    [] c = "B" -> "b"
    [] c = "D" -> "d"
    [] c = "E" -> "e"
    [] c = "F" -> "f"
    [] c = "N" -> "n"
    [] c = "R" -> "r"
    [] c = "S" -> "s"
    [] c = "X" -> "x"
    [] OTHER -> c

\* str.lower()
Lower(s) == [i \in 1..Len(s) |-> LowerChar(s[i])]

RECURSIVE LStrip(_)
LStrip(s) ==
  IF s # <<>> /\ Head(s) \in Whitespace THEN LStrip(Tail(s)) ELSE s

RECURSIVE RStrip(_)
RStrip(s) ==
  IF s # <<>> /\ s[Len(s)] \in Whitespace
    THEN RStrip(SubSeq(s, 1, Len(s) - 1))
    ELSE s

\* str.strip()
Strip(s) == RStrip(LStrip(s))

\* " ".join(context.args)
RECURSIVE Join(_)
Join(args) ==
  IF args = <<>> THEN <<>>
  ELSE IF Len(args) = 1 THEN args[1]
  ELSE args[1] \o <<" ">> \o Join(Tail(args))

\* Optional values: None is the empty sequence, a present value x is <<x>>.
None == <<>>
Some(x) == <<x>>

\* ----------------------------------------------------------- user_settings
\* The table is a bag of rows: the PRIMARY KEY is enforced by the
\* ON CONFLICT clauses of the statements below, not by the representation.
Row(u, l, f) == [user_id |-> u, language |-> l, footer |-> f]

RowsOf(table, u) == {r \in BagToSet(table) : r.user_id = u}

RowCount(table, u) ==
  BagCardinality([r \in RowsOf(table, u) |-> CopiesIn(r, table)])

\* SELECT language, footer FROM user_settings WHERE user_id = $1 (fetchrow)
fetchrow(table, u) ==
  IF RowsOf(table, u) = {} THEN None
  ELSE LET r == CHOOSE r \in RowsOf(table, u) : TRUE
       IN Some([language |-> r.language, footer |-> r.footer])

\* INSERT INTO user_settings (user_id) VALUES ($1) ON CONFLICT DO NOTHING
insert_default_NoConflictClause(table, u) ==
  table (+) SetToBag({Row(u, DDL_DEFAULT_LANGUAGE, DDL_DEFAULT_FOOTER)})

insert_default(table, u) ==
  IF RowsOf(table, u) # {} THEN table
  ELSE table (+) SetToBag({Row(u, DDL_DEFAULT_LANGUAGE, DDL_DEFAULT_FOOTER)})

\* INSERT ... (user_id, language, updated_at) ... ON CONFLICT (user_id)
\* DO UPDATE SET language = $2
update_user_language_ReplacingRow(table, u, l) ==
  BagOfAll(LAMBDA r : r, [r \in BagToSet(table) \ RowsOf(table, u) |-> CopiesIn(r, table)])
    (+) SetToBag({Row(u, l, DDL_DEFAULT_FOOTER)})

update_user_language(table, u, l) ==
  IF RowsOf(table, u) # {}
    THEN BagOfAll(LAMBDA r : IF r.user_id = u THEN [r EXCEPT !.language = l] ELSE r,
                  table)
    ELSE table (+) SetToBag({Row(u, l, DDL_DEFAULT_FOOTER)})

\* INSERT ... (user_id, footer, updated_at) ... ON CONFLICT (user_id)
\* DO UPDATE SET footer = $2
update_user_footer(table, u, f) ==
  IF RowsOf(table, u) # {}
    THEN BagOfAll(LAMBDA r : IF r.user_id = u THEN [r EXCEPT !.footer = f] ELSE r,
                  table)
    ELSE table (+) SetToBag({Row(u, DDL_DEFAULT_LANGUAGE, f)})

\* ------------------------------------------------------------ upstream data
\* Candidate records as the providers return them: `id` identifies the
\* record, `img` says whether it carries a cover or poster image, `len`
\* is the length of its formatted text apart from the footer.
A1 == [id |-> 1, img |-> TRUE, len |-> 500]
A2 == [id |-> 2, img |-> FALSE, len |-> 500]
M1 == [id |-> 1, img |-> TRUE, len |-> 500]
M2 == [id |-> 2, img |-> TRUE, len |-> 1023]

\* An empty JSON object.
EmptyDict == [k \in {} |-> 0]

\* Bodies of successful (2xx, well-formed) responses.
AnimePayloads == {<<>>, <<A1>>, <<A1, A2>>, <<A2, A1>>}
MoviePayloads == {<<>>, <<M1>>, <<M1, M2>>}
DetailsPayloads(movie_id) ==
  {EmptyDict} \cup {m \in {M1, M2} : m.id = movie_id}

\* What an HTTP exchange can end in: the client's 15 s timeout, a status
\* raise_for_status() rejects, a body .json() or the .get() chain cannot
\* decode, or a well-formed body.
Failure(kind) == [kind |-> kind, body |-> <<>>]
Failures == {Failure("timeout"), Failure("status"), Failure("malformed")}
Ok(body) == [kind |-> "ok", body |-> body]

SearchResponses(media) ==
  Failures \cup {Ok(b) : b \in IF media = "anime" THEN AnimePayloads ELSE MoviePayloads}
DetailsResponses(movie_id) ==
  Failures \cup {Ok(b) : b \in DetailsPayloads(movie_id)}

\* Python truthiness of a JSON list or object.
Truthy(v) == DOMAIN v # {}

\* ------------------------------------------------------------------ inputs
Commands ==
  {"start", "help", "stats", "clearcache", "setfooter", "setlang", "anime", "movie"}

\* context.args: the message text after the command, split on whitespace.
ArgsOf(cmd) ==
  CASE cmd = "setlang" -> {<<>>, <<FR>>, <<EN>>, <<<<"d", "e">>>>, <<<<"F", "R">>>>}
    [] cmd = "setfooter" -> {<<>>, <<<<"X">>>>}
    [] cmd \in {"anime", "movie"} -> {<<>>, <<<<"a">>>>, <<<<"A">>>>}
    [] OTHER -> {<<>>}

\* callback_data: "<media>_<index or movie id>_<initiating user id>"
Tokens ==
  [media : {"anime"}, num : {0, 1}, uid : Users]
    \cup [media : {"movie"}, num : {1, 2}, uid : Users]
NoToken == [media |-> "", num |-> 0, uid |-> 0]

\* ------------------------------------------------------------------- state
\* TMDB_API_KEY = os.environ.get("TMDB_API_KEY"): the deployment modelled
\* has the key configured.
TMDB_API_KEY == TRUE

VARIABLES
  user_settings,    \* table user_settings: a bag of rows
  total_searches,   \* global_stats['total_searches']
  cache,            \* _cache: cache key -> response
  user_data,        \* context.user_data of each user: key -> pending selection
  tasks,            \* the handler tasks in flight: a bag of task records
  updates,          \* updates delivered so far
  ev,               \* what the latest step did: whose update, what it sent,
                    \* which upstream requests it issued, what an adapter returned
  concurrent_updates, \* Application.concurrent_updates: whether the update
                    \* fetcher takes the next update before the handler of
                    \* the previous one has returned
  returned,         \* history: the non-empty results the search adapters have
                    \* returned since the last /clearcache, each with its
                    \* provider and its title in lower case
  prompted          \* history: the anime selection prompts shown to each
                    \* user whose pending selection has not been discarded
                    \* since, each with the result list of its search

vars ==
  <<user_settings, total_searches, cache, user_data, tasks, updates, ev,
    concurrent_updates, returned, prompted>>

NoSettings == [language |-> <<>>, footer |-> <<>>]

Idle ==
  [pc |-> "idle", user |-> 0, handler |-> "", args |-> <<>>, token |-> NoToken,
   settings |-> NoSettings, results |-> None, n |-> 0]

NewTask(u, handler, args, token) ==
  [Idle EXCEPT !.pc = "new", !.user = u, !.handler = handler, !.args = args,
               !.token = token]

InFlight == BagToSet(tasks)

CanDispatch ==
  IF concurrent_updates
    THEN updates < MaxConcurrentUpdates /\ BagCardinality(tasks) < MaxTasks
    ELSE updates < MaxUpdates /\ tasks = EmptyBag

\* An outbound Telegram call.
Msg(op, key, lang, text, n) ==
  [op |-> op, key |-> key, lang |-> lang, text |-> text, n |-> n, buttons |-> <<>>]

Event(u, handler, sent, http, ret) ==
  [user |-> u, handler |-> handler, sent |-> sent, http |-> http, ret |-> ret]

\* def is_owner(user_id)
is_owner_Everyone(user_id) == TRUE

is_owner(user_id) == user_id \in AUTHORIZED_USER_IDS

\* def t(key, lang): TRANSLATIONS.get(lang, TRANSLATIONS["fr"])
t(key, lang) == [key |-> key, lang |-> IF lang \in SUPPORTED_LANGUAGES THEN lang ELSE FR]

Reply(key, lang) == Msg("reply_text", key, t(key, lang).lang, <<>>, 0)
Edit(key, lang) == Msg("edit_text", key, t(key, lang).lang, <<>>, 0)

\* ---------------------------------------------------------------- adapters
\* cache_key = f"anime_search:{title.lower()}" / f"movie_search:{title.lower()}"
search_cache_key_CaseSensitive(media, title) ==
  <<IF media = "anime" THEN "anime_search:" ELSE "movie_search:">> \o title

search_cache_key(media, title) ==
  <<IF media = "anime" THEN "anime_search:" ELSE "movie_search:">> \o Lower(title)

\* cache_key = f"movie_details:{movie_id}"
details_cache_key(movie_id) == <<"movie_details:", ToString(movie_id)>>

\* The request search_anime / search_movie sends: the title is stripped.
SearchRequest(media, title) == [provider |-> media, query |-> Strip(title)]
DetailsRequest(movie_id) == [provider |-> "movie", query |-> <<ToString(movie_id)>>]

\* search.json().get("results", [])[:5]; AniList is asked for perPage: 5.
FirstFive(list) == SubSeq(list, 1, IF Len(list) < 5 THEN Len(list) ELSE 5)

\* search_anime / search_movie after the response arrived: the value
\* returned and whether it is stored (`if results: _cache[cache_key] = results`).
search_result(resp) ==
  IF resp.kind = "ok" THEN Some(FirstFive(resp.body)) ELSE None

search_stores_AnyBody(resp) == resp.kind = "ok"

search_stores(resp) == resp.kind = "ok" /\ Truthy(FirstFive(resp.body))

\* get_movie_details after the response arrived: data = details.json();
\* _cache[cache_key] = data; return data
details_result(resp) ==
  IF resp.kind = "ok" THEN Some(resp.body) ELSE None

details_stores(resp) == resp.kind = "ok"

\* `if not results`, `if not details`: None and empty values are falsy.
Falsy_NoneOnly(opt) == opt = None

Falsy(opt) == opt = None \/ ~Truthy(opt[1])

\* ------------------------------------------------------------- presentation
\* format_anime / format_movie: the formatted text, by what decides it.
format(media, rec, settings) ==
  [media |-> media, id |-> rec.id, lang |-> t("record", settings.language).lang,
   footer |-> settings.footer, len |-> rec.len + Len(settings.footer)]

\* len(formatted) <= 1024
CAPTION_LIMIT == 1024

FitsCaption_Always(formatted) == TRUE

FitsCaption(formatted) == formatted.len <= CAPTION_LIMIT

RecordMsg(op, formatted) ==
  Msg(op, IF formatted.media = "anime" THEN "anime_record" ELSE "movie_record",
      formatted.lang, formatted.footer, formatted.id)

\* The Telegram calls that deliver a formatted record:
\*   if img and len(formatted) <= 1024: reply_photo(img, caption); delete()
\*   else: [reply_photo(img)]; edit_text(formatted)
DeliveryCalls(rec, formatted) ==
  IF rec.img /\ FitsCaption(formatted)
    THEN <<RecordMsg("reply_photo_caption", formatted), Msg("delete", "", <<>>, <<>>, 0)>>
    ELSE (IF rec.img THEN <<Msg("reply_photo", "", <<>>, <<>>, rec.id)>> ELSE <<>>)
           \o <<RecordMsg("edit_text", formatted)>>

\* `fail` is the first call the transport rejects (0: none).
Delivered(calls, fail) ==
  IF fail = 0 THEN calls ELSE SubSeq(calls, 1, fail - 1)

FailChoices(calls) == 0..Len(calls)

\* ------------------------------------------------------------- continuation
Out(task, sent) == [task |-> task, sent |-> sent]

Usage(cmd, s) ==
  Msg("reply_text", IF cmd = "anime" THEN "usage_anime" ELSE "usage_movie",
      t("usage", s.language).lang, <<>>, 0)

\* context.args and context.args[0] in ["fr", "en", "es"]
valid_language_AnyCode(args) == args # <<>>

valid_language(args) == args # <<>> /\ args[1] \in SUPPORTED_LANGUAGES

\* What a command handler does once get_user_settings has returned `s`,
\* up to its next access to shared state.
after_settings(task, s) ==
  LET t1 == [task EXCEPT !.settings = s]
      h == task.handler
  IN CASE h \in {"start", "help"} ->
            Out(Idle, <<Msg("reply_text", "welcome", t("welcome", s.language).lang,
                            s.footer, 0)>>)
       [] h = "call" -> Out(Idle, <<>>)
       [] h = "stats" -> Out([t1 EXCEPT !.pc = "get_global_stats"], <<>>)
       [] h = "clearcache" -> Out([t1 EXCEPT !.pc = "clear"], <<>>)
       [] h = "setfooter" ->
            IF task.args = <<>>
              THEN Out(Idle, <<Msg("reply_text", "usage_setfooter",
                                   t("usage", s.language).lang, s.footer, 0)>>)
              ELSE Out([t1 EXCEPT !.pc = "update_user_footer"], <<>>)
       [] h = "setlang" ->
            IF ~valid_language(task.args)
              THEN Out(Idle, <<Msg("reply_text", "usage_setlang",
                                   t("usage", s.language).lang, s.language, 0)>>)
              ELSE Out([t1 EXCEPT !.pc = "update_user_language"], <<>>)
       [] h = "anime" ->
            IF task.args = <<>>
              THEN Out(Idle, <<Usage("anime", s)>>)
              ELSE Out([t1 EXCEPT !.pc = "search"],
                       <<Msg("reply_text", "searching", t("searching", s.language).lang,
                             Join(task.args), 0)>>)
       [] h = "movie" ->
            IF task.args = <<>> THEN Out(Idle, <<Usage("movie", s)>>)
            ELSE IF ~TMDB_API_KEY
              THEN Out(Idle, <<Reply("tmdb_not_configured", s.language)>>)
            ELSE Out([t1 EXCEPT !.pc = "search"],
                     <<Msg("reply_text", "searching", t("searching", s.language).lang,
                           Join(task.args), 0)>>)

\* The bag with task `old` (if in flight) replaced by its next state `new`;
\* a finished task (Idle) leaves the bag.
Replace(bag, old, new) ==
  (bag (-) SetToBag({old})) (+) SetToBag({new} \ {Idle})

\* What a call returned: search_anime / search_movie (fn "search") or
\* get_movie_details (fn "details"), `arg` its title or movie id, `hit`
\* whether the value came from _cache; get_user_settings for the user of the
\* step, `hit` whether the SELECT found a row; update_user_language and
\* update_user_footer for the user of the step, `arg` the value written.
Ret(fn, media, arg, hit, value) ==
  Some([fn |-> fn, media |-> media, arg |-> arg, hit |-> hit, value |-> value])

\* The history after a step that sent `sent` and in which an adapter
\* returned `ret`.
Record(sent, ret) ==
  IF \E k \in 1..Len(sent) : sent[k].key = "cache_cleared" THEN {}
  ELSE IF ret # None /\ ret[1].fn = "search" /\ ~Falsy(ret[1].value)
    THEN returned \cup {[media |-> ret[1].media, title |-> Lower(ret[1].arg),
                          value |-> ret[1].value[1]]}
    ELSE returned

\* The anime prompts on display after a step of `task` that sent `sent`: one
\* more after anime_command's `edit_text(select_result, reply_markup=...)`,
\* none for the user after `del context.user_data[f"anime_results_{user_id}"]`.
RecordPrompt(task, sent) ==
  IF task.handler = "anime" /\ \E k \in 1..Len(sent) : sent[k].key = "select_result"
    THEN prompted \cup {[uid |-> task.user, list |-> task.results[1]]}
  ELSE IF task.pc = "cleanup" /\ task.token.media = "anime" /\ sent = <<>>
    THEN {p \in prompted : p.uid # task.user}
    ELSE prompted

\* The step's effect on the tasks in flight, on `ev` and on the histories.
Finish(task, out, http, ret) ==
  /\ tasks' = Replace(tasks, task, out.task)
  /\ ev' = Event(task.user, task.handler, out.sent, http, ret)
  /\ returned' = Record(out.sent, ret)
  /\ prompted' = RecordPrompt(task, out.sent)
  /\ UNCHANGED concurrent_updates

\* -------------------------------------------------------------------- Init
Init ==
  /\ user_settings = EmptyBag
  /\ total_searches = 0
  /\ cache = <<>>
  /\ user_data = [u \in Users |-> <<>>]
  /\ tasks = EmptyBag
  /\ updates = 0
  /\ ev = Event(0, "", <<>>, <<>>, None)
  /\ returned = {}
  /\ prompted = {}
  /\ concurrent_updates = FALSE

\* dict[key] = value
Put_DroppingOthers(dict, key, value) == (key :> value)

Put(dict, key, value) == (key :> value) @@ dict

\* del dict[key]
Del_Everything(dict, key) == <<>>

Del(dict, key) == [k \in DOMAIN dict \ {key} |-> dict[k]]

\* ------------------------------------------------- commands: first step
\* A command update is dispatched to its handler.  An unauthorized caller is
\* turned away (start answers access_denied, the other handlers return
\* silently); otherwise the handler calls get_user_settings, whose SELECT
\* runs in this step.
Command(u, cmd, args) ==
  /\ CanDispatch
  /\ updates' = updates + 1
  /\ IF ~is_owner(u)
       THEN /\ ev' = Event(u, cmd,
                           IF cmd = "start" THEN <<Reply("access_denied", FR)>> ELSE <<>>,
                           <<>>, None)
            /\ UNCHANGED <<tasks, returned, prompted, concurrent_updates>>
       ELSE LET task == NewTask(u, cmd, args, NoToken)
                row == fetchrow(user_settings, u)
            IN IF row # None
                 THEN Finish(task, after_settings(task, row[1]), <<>>,
                             Ret("get_user_settings", "", <<>>, TRUE, row[1]))
                 ELSE Finish(task,
                             Out([task EXCEPT !.pc = "insert_default"], <<>>), <<>>, None)
  /\ UNCHANGED <<user_settings, total_searches, cache, user_data>>

\* get_user_settings, no row found: the INSERT of the default row, and the
\* literals it returns.
get_user_settings_insert(task) ==
     /\ task.pc = "insert_default"
     /\ user_settings' = insert_default(user_settings, task.user)
     /\ Finish(task,
               after_settings(task, [language |-> RETURNED_DEFAULT_LANGUAGE,
                                     footer |-> RETURNED_DEFAULT_FOOTER]),
               <<>>,
               Ret("get_user_settings", "", <<>>, FALSE,
                   [language |-> RETURNED_DEFAULT_LANGUAGE,
                    footer |-> RETURNED_DEFAULT_FOOTER]))
     /\ UNCHANGED <<total_searches, cache, user_data, updates>>

\* stats_command: get_global_stats reads the counter ...
get_global_stats(task) ==
     /\ task.pc = "get_global_stats"
     /\ Finish(task,
               Out([task EXCEPT !.pc = "stats_reply", !.n = total_searches], <<>>),
               <<>>, None)
     /\ UNCHANGED <<user_settings, total_searches, cache, user_data, updates>>

\* ... and the reply is built with len(_cache) as it is then.
stats_reply(task) ==
     /\ task.pc = "stats_reply"
     /\ Finish(task,
               Out(Idle, <<Msg("reply_text", "stats", t("stats", task.settings.language).lang,
                               <<ToString(Cardinality(DOMAIN cache))>>, task.n)>>),
               <<>>, None)
     /\ UNCHANGED <<user_settings, total_searches, cache, user_data, updates>>

\* clear_cache: count = len(_cache); _cache.clear(); reply cache_cleared
clear_count_AfterClear(c) == 0

clear_count(c) == Cardinality(DOMAIN c)

clear_cache(task) ==
     /\ task.pc = "clear"
     /\ cache' = <<>>
     /\ Finish(task,
               Out(Idle, <<Msg("reply_text", "cache_cleared",
                               t("cache_cleared", task.settings.language).lang,
                               <<>>, clear_count(cache))>>),
               <<>>, None)
     /\ UNCHANGED <<user_settings, total_searches, user_data, updates>>

\* set_footer with arguments: update_user_footer, then footer_updated
set_footer(task) ==
  LET new_footer == Join(task.args)
  IN /\ task.pc = "update_user_footer"
     /\ user_settings' = update_user_footer(user_settings, task.user, new_footer)
     /\ Finish(task,
               Out(Idle, <<Msg("reply_text", "footer_updated",
                               t("footer_updated", task.settings.language).lang,
                               new_footer, 0)>>),
               <<>>, Ret("update_user_footer", "", new_footer, FALSE, None))
     /\ UNCHANGED <<total_searches, cache, user_data, updates>>

\* set_language with a supported code: update_user_language, then
\* language_updated in the new language
set_language(task) ==
  LET new_lang == task.args[1]
  IN /\ task.pc = "update_user_language"
     /\ user_settings' = update_user_language(user_settings, task.user, new_lang)
     /\ Finish(task,
               Out(Idle, <<Msg("reply_text", "language_updated",
                               t("language_updated", new_lang).lang, new_lang, 0)>>),
               <<>>, Ret("update_user_language", "", new_lang, FALSE, None))
     /\ UNCHANGED <<total_searches, cache, user_data, updates>>

\* ------------------------------------------------------------------ search
\* The provider a task's search or selection is about.
Media(task) ==
  IF task.handler \in {"button", "call"} THEN task.token.media ELSE task.handler

PendingKey(media, uid) ==
  <<IF media = "anime" THEN "anime_results_" ELSE "movie_settings_", ToString(uid)>>

\* anime_command / movie_command once search_anime / search_movie returned:
\*   if not results: edit no_results; return
\*   await increment_stat("total_searches")
after_search(task, results) ==
  IF task.handler = "call" THEN Out(Idle, <<>>)
  ELSE IF Falsy(results)
    THEN Out(Idle, <<Edit("no_results", task.settings.language)>>)
    ELSE Out([task EXCEPT !.pc = "increment_stat", !.results = results], <<>>)

\* search_anime / search_movie up to the request: the TMDB key test of
\* search_movie, then the cache test.
search_lookup(task) ==
  LET media == Media(task)
      title == Join(task.args)
      key == search_cache_key(media, title)
  IN /\ task.pc = "search"
     /\ IF media = "movie" /\ ~TMDB_API_KEY
          THEN Finish(task, after_search(task, None), <<>>,
                      Ret("search", media, title, FALSE, None))
        ELSE IF key \in DOMAIN cache
          THEN Finish(task, after_search(task, Some(cache[key])), <<>>,
                      Ret("search", media, title, TRUE, Some(cache[key])))
          ELSE Finish(task, Out([task EXCEPT !.pc = "http"], <<>>),
                      <<SearchRequest(media, title)>>, None)
     /\ UNCHANGED <<user_settings, total_searches, cache, user_data, updates>>

\* search_anime / search_movie from the response on.
search_response(task, resp) ==
  LET media == Media(task)
      title == Join(task.args)
      key == search_cache_key(media, title)
      results == search_result(resp)
  IN /\ task.pc = "http"
     /\ resp \in SearchResponses(media)
     /\ cache' = IF search_stores(resp) THEN Put(cache, key, results[1]) ELSE cache
     /\ Finish(task, after_search(task, results), <<>>,
               Ret("search", media, title, FALSE, results))
     /\ UNCHANGED <<user_settings, total_searches, user_data, updates>>

\* INSERT INTO global_stats ... VALUES ($1, 1, NOW()) ON CONFLICT (key)
\* DO UPDATE SET value = global_stats.value + 1; no row counts as 0.
global_stats_upsert_InsertOnly(value) == 1

global_stats_upsert(value) == IF value = 0 THEN 1 ELSE value + 1

\* increment_stat("total_searches")
increment_stat(task) ==
     /\ task.pc = "increment_stat"
     /\ total_searches' = global_stats_upsert(total_searches)
     /\ Finish(task, Out([task EXCEPT !.pc = "present"], <<>>), <<>>, None)
     /\ UNCHANGED <<user_settings, cache, user_data, updates>>

\* The delivery of a record and what follows it in each handler:
\* anime_command / movie_command answer a TelegramError with error_sending
\* and are done; button_callback answers any exception with "Erreur
\* inattendue" and goes on to delete the pending selection only after a
\* delivery that raised nothing.
deliver_Uncaught(task, media, rec, fail) ==
  LET calls == DeliveryCalls(rec, format(media, rec, task.settings))
  IN IF task.handler = "button" /\ fail = 0
       THEN Out([task EXCEPT !.pc = "cleanup"], calls)
       ELSE Out(Idle, Delivered(calls, fail))

deliver(task, media, rec, fail) ==
  LET calls == DeliveryCalls(rec, format(media, rec, task.settings))
      sent == Delivered(calls, fail)
  IN IF task.handler = "button"
       THEN IF fail = 0
              THEN Out([task EXCEPT !.pc = "cleanup"], sent)
              ELSE Out(Idle, sent \o <<Edit("unexpected", FR)>>)
       ELSE Out(Idle, sent \o IF fail = 0 THEN <<>>
                              ELSE <<Edit("error_sending", task.settings.language)>>)

CanFail(media, rec, settings, fail) ==
  fail \in FailChoices(DeliveryCalls(rec, format(media, rec, settings)))

\* The callers of get_movie_details once it returned:
\*   movie_command:   if details: deliver
\*   button_callback: if not details: edit "Erreur ... details"; return
after_details(task, details, fail) ==
  IF task.handler = "call" THEN Out(Idle, <<>>)
  ELSE IF Falsy(details)
    THEN Out(Idle, IF task.handler = "button" THEN <<Edit("details_error", FR)>> ELSE <<>>)
    ELSE deliver(task, "movie", details[1], fail)

DetailsCanFail(task, details, fail) ==
  IF task.handler = "call" \/ Falsy(details) THEN fail = 0
  ELSE CanFail("movie", details[1], task.settings, fail)

\* get_movie_details up to the request: the cache test.
details_lookup(task, movie_id, sent, fail) ==
  LET key == details_cache_key(movie_id)
      out == after_details(task, Some(cache[key]), fail)
  IN IF key \in DOMAIN cache
       THEN /\ DetailsCanFail(task, Some(cache[key]), fail)
            /\ Finish(task, Out(out.task, sent \o out.sent), <<>>,
                      Ret("details", "movie", <<ToString(movie_id)>>, TRUE,
                          Some(cache[key])))
       ELSE /\ fail = 0
            /\ Finish(task, Out([task EXCEPT !.pc = "details_http", !.n = movie_id], sent),
                      <<DetailsRequest(movie_id)>>, None)

\* The selection prompt: one button per result, in result order.
Prompt_FirstResultOnly(media, list, uid, lang) ==
  [Msg("edit_text", "select_result", t("select_result", lang).lang, <<>>, Len(list))
     EXCEPT !.buttons = <<[media |-> media,
                           num |-> IF media = "anime" THEN 0 ELSE list[1].id,
                           uid |-> uid]>>]

Prompt(media, list, uid, lang) ==
  [Msg("edit_text", "select_result", t("select_result", lang).lang, <<>>, Len(list))
     EXCEPT !.buttons = [k \in 1..Len(list) |->
                           [media |-> media,
                            num |-> IF media = "anime" THEN k - 1 ELSE list[k].id,
                            uid |-> uid]]]

\* context.user_data[...] = {"results": results, "settings": settings}  (anime)
\* context.user_data[...] = settings                                     (movie)
pending_value_DefaultSettings(media, list, settings) ==
  LET defaults == [language |-> RETURNED_DEFAULT_LANGUAGE, footer |-> RETURNED_DEFAULT_FOOTER]
  IN IF media = "anime" THEN [results |-> list, settings |-> defaults]
     ELSE [results |-> <<>>, settings |-> defaults]

pending_value(media, list, settings) ==
  IF media = "anime" THEN [results |-> list, settings |-> settings]
  ELSE [results |-> <<>>, settings |-> settings]

\* anime_command / movie_command after increment_stat returned.
present(task, fail) ==
  LET media == Media(task)
      list == task.results[1]
      u == task.user
  IN /\ task.pc = "present"
     /\ IF Len(list) = 1
          THEN /\ IF media = "anime"
                    THEN /\ CanFail(media, list[1], task.settings, fail)
                         /\ Finish(task, deliver(task, media, list[1], fail), <<>>, None)
                    ELSE details_lookup(task, list[1].id, <<>>, fail)
               /\ UNCHANGED user_data
          ELSE /\ fail \in {0, 1}
               /\ user_data' = [user_data EXCEPT ![u] =
                                  Put(@, PendingKey(media, u),
                                      pending_value(media, list, task.settings))]
               /\ Finish(task,
                         Out(Idle, IF fail = 0
                                     THEN <<Prompt(media, list, u, task.settings.language)>>
                                     ELSE <<Edit("error_sending", task.settings.language)>>),
                         <<>>, None)
     /\ UNCHANGED <<user_settings, total_searches, cache, updates>>

\* get_movie_details from the response on, and its caller's continuation.
details_response(task, resp, fail) ==
  LET details == details_result(resp)
  IN /\ task.pc = "details_http"
     /\ resp \in DetailsResponses(task.n)
     /\ DetailsCanFail(task, details, fail)
     /\ cache' = IF details_stores(resp)
                   THEN Put(cache, details_cache_key(task.n), details[1])
                   ELSE cache
     /\ Finish(task, after_details(task, details, fail), <<>>,
               Ret("details", "movie", <<ToString(task.n)>>, FALSE, details))
     /\ UNCHANGED <<user_settings, total_searches, user_data, updates>>

\* ------------------------------------------------------------ button press
\* button_callback up to its first access to shared state after an await.
\* There is no is_owner test here: only the presser is compared with the
\* user id in the token.
is_initiator_Anyone(presser, token) == TRUE

\* if query.from_user.id != user_id: return
is_initiator(presser, token) == presser = token.uid

button_callback(presser, token, fail) ==
  LET task == NewTask(presser, "button", <<>>, token)
      answer == <<Msg("answer", "", <<>>, <<>>, 0)>>
      key == PendingKey(token.media, token.uid)
      mine == user_data[presser]
  IN /\ CanDispatch
     /\ updates' = updates + 1
     /\ IF ~is_initiator(presser, token)
          THEN fail = 0 /\ Finish(task, Out(Idle, answer), <<>>, None)
        ELSE IF key \notin DOMAIN mine
          THEN /\ fail = 0
               /\ Finish(task, Out(Idle, answer \o <<Edit("session_expired", FR)>>),
                         <<>>, None)
        ELSE IF token.media = "anime"
          THEN LET data == mine[key]
                   index == token.num
                   bound == [task EXCEPT !.settings = data.settings]
               IN IF index + 1 > Len(data.results)
                    \* data["results"][index] raises IndexError
                    THEN /\ fail = 0
                         /\ Finish(task, Out(Idle, answer \o <<Edit("unexpected", FR)>>),
                                   <<>>, None)
                    ELSE LET out == deliver(bound, "anime", data.results[index + 1], fail)
                         IN /\ CanFail("anime", data.results[index + 1], data.settings, fail)
                            /\ Finish(task, Out(out.task, answer \o out.sent), <<>>, None)
          ELSE details_lookup([task EXCEPT !.settings = mine[key].settings],
                              token.num, answer, fail)
     /\ UNCHANGED <<user_settings, total_searches, cache, user_data>>

\* button_callback after the delivery: del context.user_data[key]; a key
\* that is gone by then raises KeyError, answered like any exception.
cleanup(task) ==
  LET key == PendingKey(task.token.media, task.token.uid)
  IN /\ task.pc = "cleanup"
     /\ IF key \in DOMAIN user_data[task.user]
          THEN /\ user_data' = [user_data EXCEPT ![task.user] = Del(@, key)]
               /\ Finish(task, Out(Idle, <<>>), <<>>, None)
          ELSE /\ UNCHANGED user_data
               /\ Finish(task, Out(Idle, <<Edit("unexpected", FR)>>), <<>>, None)
     /\ UNCHANGED <<user_settings, total_searches, cache, updates>>

\* -------------------------------------------------------------------- Next
FailIndexes == 0..2

Next ==
  \/ \E u \in Users, cmd \in Commands : \E args \in ArgsOf(cmd) : Command(u, cmd, args)
  \/ \E p \in Users, token \in Tokens, fail \in FailIndexes : button_callback(p, token, fail)
  \/ \E task \in InFlight : get_user_settings_insert(task)
  \/ \E task \in InFlight : get_global_stats(task)
  \/ \E task \in InFlight : stats_reply(task)
  \/ \E task \in InFlight : clear_cache(task)
  \/ \E task \in InFlight : set_footer(task)
  \/ \E task \in InFlight : set_language(task)
  \/ \E task \in InFlight : search_lookup(task)
  \/ \E task \in InFlight : \E resp \in SearchResponses(Media(task)) :
       search_response(task, resp)
  \/ \E task \in InFlight : increment_stat(task)
  \/ \E task \in InFlight, fail \in FailIndexes : present(task, fail)
  \/ \E task \in InFlight, fail \in FailIndexes :
       \E resp \in DetailsResponses(task.n) : details_response(task, resp, fail)
  \/ \E task \in InFlight : cleanup(task)

Spec == Init /\ [][Next]_vars

\* The application as built, with the event loop running every handler that
\* has started through to its end: each await of a handler in flight returns
\* (the HTTP client gives up after 15 s, the store and Telegram answer or
\* raise).  Nothing obliges users to send further updates.
SpecFair == Init /\ [][Next]_vars /\ WF_vars(tasks # EmptyBag /\ Next)

\* The same handlers when the application handles updates concurrently: a
\* handler task is suspended at each await and the tasks of other updates
\* run in between.
InitConcurrent ==
  /\ user_settings = EmptyBag
  /\ total_searches = 0
  /\ cache = <<>>
  /\ user_data = [u \in Users |-> <<>>]
  /\ tasks = EmptyBag
  /\ updates = 0
  /\ ev = Event(0, "", <<>>, <<>>, None)
  /\ returned = {}
  /\ prompted = {}
  /\ concurrent_updates = TRUE

SpecConcurrent == InitConcurrent /\ [][Next]_vars

\* ------------------------------------------------- the adapters on their own
\* search_anime(title), search_movie(title) and get_movie_details(movie_id)
\* called directly, with any title text (the command handlers only pass
\* " ".join(context.args), which has no outer whitespace).
AdapterTitles == {<<"a">>, <<"A">>, <<" ", "a">>, <<"a", " ">>}

call_search(media, title) ==
  LET task == [NewTask(0, "call", <<title>>, [media |-> media, num |-> 0, uid |-> 0])
                 EXCEPT !.pc = "search"]
  IN /\ CanDispatch
     /\ updates' = updates + 1
     /\ tasks' = tasks (+) SetToBag({task})
     /\ ev' = Event(0, "call", <<>>, <<>>, None)
     /\ UNCHANGED <<user_settings, total_searches, cache, user_data, returned,
                    prompted, concurrent_updates>>

call_details(movie_id) ==
  LET task == NewTask(0, "call", <<>>, [media |-> "movie", num |-> movie_id, uid |-> 0])
  IN /\ CanDispatch
     /\ updates' = updates + 1
     /\ details_lookup(task, movie_id, <<>>, 0)
     /\ UNCHANGED <<user_settings, total_searches, cache, user_data>>

AdapterNext ==
  \/ \E media \in {"anime", "movie"}, title \in AdapterTitles : call_search(media, title)
  \/ \E movie_id \in {1, 2} : call_details(movie_id)
  \/ \E task \in InFlight : search_lookup(task)
  \/ \E task \in InFlight : \E resp \in SearchResponses(Media(task)) :
       search_response(task, resp)
  \/ \E task \in InFlight : \E resp \in DetailsResponses(task.n) :
       details_response(task, resp, 0)

SpecAdapter == Init /\ [][AdapterNext]_vars

\* --------------------------------------------- the store calls on their own
\* get_user_settings(user_id), update_user_language(user_id, language) and
\* update_user_footer(user_id, footer) called directly, for any user and in
\* any interleaving of their store round-trips.
StoreLanguages == {FR, EN}
StoreFooters == {<<"X">>, <<"Y">>}

call_get_user_settings(u) ==
  LET task == NewTask(u, "call", <<>>, NoToken)
      row == fetchrow(user_settings, u)
  IN /\ CanDispatch
     /\ updates' = updates + 1
     /\ IF row # None
          THEN Finish(task, Out(Idle, <<>>), <<>>,
                      Ret("get_user_settings", "", <<>>, TRUE, row[1]))
          ELSE Finish(task, Out([task EXCEPT !.pc = "insert_default"], <<>>), <<>>, None)
     /\ UNCHANGED <<user_settings, total_searches, cache, user_data>>

call_update_user_language(u, language) ==
  /\ CanDispatch
  /\ updates' = updates + 1
  /\ user_settings' = update_user_language(user_settings, u, language)
  /\ Finish(NewTask(u, "call", <<>>, NoToken), Out(Idle, <<>>), <<>>,
            Ret("update_user_language", "", language, FALSE, None))
  /\ UNCHANGED <<total_searches, cache, user_data>>

call_update_user_footer(u, footer) ==
  /\ CanDispatch
  /\ updates' = updates + 1
  /\ user_settings' = update_user_footer(user_settings, u, footer)
  /\ Finish(NewTask(u, "call", <<>>, NoToken), Out(Idle, <<>>), <<>>,
            Ret("update_user_footer", "", footer, FALSE, None))
  /\ UNCHANGED <<total_searches, cache, user_data>>

StoreNext ==
  \/ \E u \in Users : call_get_user_settings(u)
  \/ \E task \in InFlight : get_user_settings_insert(task)
  \/ \E u \in Users, language \in StoreLanguages : call_update_user_language(u, language)
  \/ \E u \in Users, footer \in StoreFooters : call_update_user_footer(u, footer)

SpecStore == InitConcurrent /\ [][StoreNext]_vars

\* ================================================================== claims

\* C1: every step that processes a command of a caller outside
\* AUTHORIZED_USER_IDS issues no provider request and leaves the cache, the
\* preference store, the search counter and the pending selections as they
\* were; the command is over with that step (no task stays in flight).
C1_UnauthorizedNoEffect ==
  [][(ev'.user \notin AUTHORIZED_USER_IDS /\ ev'.handler \in Commands)
       => /\ ev'.http = <<>>
          /\ cache' = cache
          /\ user_settings' = user_settings
          /\ total_searches' = total_searches
          /\ user_data' = user_data
          /\ tasks' = tasks]_vars

\* An unauthorized command was processed while the cache and the store held
\* entries and a selection was pending.
C1_Witness ==
  /\ ev.user \in Users \ AUTHORIZED_USER_IDS
  /\ ev.handler \in {"anime", "movie", "clearcache", "setlang", "setfooter"}
  /\ DOMAIN cache # {}
  /\ user_settings # EmptyBag
  /\ \E u \in Users : DOMAIN user_data[u] # {}

\* C2: an unauthorized caller issuing any command receives the access-denied
\* message and nothing else.
C2_AccessDeniedForEveryCommand ==
  [][(ev'.user \notin AUTHORIZED_USER_IDS /\ ev'.handler \in Commands)
       => ev'.sent = <<Reply("access_denied", FR)>>]_vars

\* C3: once a search has returned a non-empty list R and no /clearcache has
\* happened since, every later search at the same provider for the same
\* title up to letter case is answered from the cache, makes no upstream
\* request and returns exactly R; a search with no such earlier result is a
\* miss and makes exactly one upstream request (one at the lookup, none when
\* the response arrives).
C3_LaterSearchReturnsFirstResult ==
  [][\A task \in InFlight :
       LET earlier == {h \in returned : /\ h.media = Media(task)
                                        /\ h.title = Lower(Join(task.args))}
       IN /\ search_lookup(task) =>
               IF earlier # {}
                 THEN /\ ev'.http = <<>>
                      /\ ev'.ret # None
                      /\ ev'.ret[1].hit
                      /\ \A h \in earlier : ev'.ret[1].value = Some(h.value)
                 ELSE /\ ev'.http = <<SearchRequest(Media(task), Join(task.args))>>
                      /\ ev'.ret = None
          /\ \A resp \in SearchResponses(Media(task)) :
               search_response(task, resp) => ev'.http = <<>>]_vars

\* A search for "A" was answered from the cache with the two-candidate list
\* that an earlier search for "a" had returned.
C3_Witness ==
  /\ ev.ret # None
  /\ ev.ret[1].fn = "search"
  /\ ev.ret[1].hit
  /\ ev.ret[1].arg = <<"A">>
  /\ ev.http = <<>>
  /\ Len(ev.ret[1].value[1]) = 2
  /\ [media |-> ev.ret[1].media, title |-> <<"a">>, value |-> ev.ret[1].value[1]]
       \in returned

\* C4: an adapter call (search_anime, search_movie or get_movie_details) whose
\* upstream fetch timed out, got a non-success status, got a malformed
\* payload or got an empty result, and which therefore returns nothing,
\* leaves the cache identical to what it was before.
C4_NoDataNotCached ==
  [][(/\ ev'.ret # None
      /\ ev'.ret[1].fn \in {"search", "details"}
      /\ ~ev'.ret[1].hit
      /\ Falsy(ev'.ret[1].value))
       => cache' = cache]_vars

C6_EntriesRemovedOnlyByClearCache ==
  [][(\E k \in DOMAIN cache : k \notin DOMAIN cache')
       => \E task \in InFlight : task.handler = "clearcache" /\ clear_cache(task)]_vars

\* Three entries created by earlier searches and detail fetches are still in
\* the cache after a later /setlang has been answered.
C6_Witness ==
  /\ Cardinality(DOMAIN cache) = 3
  /\ ev.handler = "setlang"
  /\ ev.user \in AUTHORIZED_USER_IDS
  /\ ev.sent # <<>>
  /\ updates = MaxUpdates

\* C7: the step in which /clearcache answers an authorized user leaves the
\* cache empty, reports exactly the number of entries the cache held when
\* that step began, and leaves every pending selection unchanged, also when
\* searches of other updates are in flight around it.
C7_ClearCacheReportsCount ==
  [][(ev'.handler = "clearcache" /\ ev'.sent # <<>>)
       => /\ ev'.user \in AUTHORIZED_USER_IDS
          /\ Len(ev'.sent) = 1
          /\ ev'.sent[1].key = "cache_cleared"
          /\ ev'.sent[1].n = Cardinality(DOMAIN cache)
          /\ cache' = <<>>
          /\ user_data' = user_data]_vars

\* /clearcache has just reported a non-empty cache while a search was waiting
\* for its upstream response and a pending selection existed.
C7_Witness ==
  /\ ev.handler = "clearcache"
  /\ ev.sent # <<>>
  /\ ev.sent[1].n >= 1
  /\ cache = <<>>
  /\ \E task \in InFlight : task.pc = "http"
  /\ \E u \in Users : DOMAIN user_data[u] # {}

\* C8: get_user_settings for a user without a row returns language "fr" and
\* the default footer and leaves exactly one row for that user, holding
\* those values; a call that finds a row returns that row's values and
\* writes nothing; a user's row changes only in a /setlang or /setfooter of
\* that user (so a following resolve with no set operation in between
\* returns the same values); the store never holds two rows for a user.
C8_ResolveDefaultsOnce ==
  [][/\ \A u \in Users : RowCount(user_settings', u) <= 1
     /\ (ev'.ret # None /\ ev'.ret[1].fn = "get_user_settings") =>
          LET u == ev'.user
              v == ev'.ret[1].value
          IN /\ RowsOf(user_settings', u) = {Row(u, v.language, v.footer)}
             /\ RowCount(user_settings', u) = 1
             /\ IF ev'.ret[1].hit
                  THEN user_settings' = user_settings
                  ELSE /\ RowsOf(user_settings, u) = {}
                       /\ v.language = <<"f", "r">>
                       /\ v.footer = <<"@", "W", "o", "r", "l", "d", "Z", "P", "r", "i", "m", "e">>
                       /\ \A w \in Users \ {u} :
                            RowsOf(user_settings', w) = RowsOf(user_settings, w)
     /\ \A u \in Users :
          (RowsOf(user_settings, u) # {} /\ RowsOf(user_settings', u) # RowsOf(user_settings, u))
            => ev'.user = u /\ ev'.handler \in {"setlang", "setfooter"}]_vars

\* The second command of a user: get_user_settings found the row that the
\* user's first command had created and returned the defaults again.
C8_Witness ==
  /\ updates = 2
  /\ ev.ret # None
  /\ ev.ret[1].fn = "get_user_settings"
  /\ ev.ret[1].hit
  /\ ev.ret[1].value = [language |-> <<"f", "r">>,
                         footer |-> <<"@", "W", "o", "r", "l", "d", "Z", "P", "r", "i", "m", "e">>]
  /\ ev.handler \in {"help", "anime"}
  /\ RowCount(user_settings, ev.user) = 1
  /\ BagCardinality(user_settings) = 1

\* C9: every stored language is one of fr, en, es; and when /setlang has
\* resolved the caller's settings it either goes on to store a code of that
\* set, or (any other code, or no argument) answers with the usage hint,
\* stores nothing, and the caller's stored language is the one the caller
\* had.
C9_StoredLanguageSupported ==
  [][/\ \A r \in BagToSet(user_settings') :
          r.language \in {<<"f", "r">>, <<"e", "n">>, <<"e", "s">>}
     /\ (ev'.handler = "setlang" /\ ev'.ret # None /\ ev'.ret[1].fn = "get_user_settings") =>
          LET u == ev'.user
              storing == {task \in BagToSet(tasks') : /\ task.user = u
                                                      /\ task.handler = "setlang"
                                                      /\ task.pc = "update_user_language"}
          IN IF \E task \in storing :
                  /\ task.args # <<>>
                  /\ task.args[1] \in {<<"f", "r">>, <<"e", "n">>, <<"e", "s">>}
               THEN ev'.sent = <<>>
               ELSE /\ storing = {}
                    /\ Len(ev'.sent) = 1
                    /\ ev'.sent[1].key = "usage_setlang"
                    /\ \A r \in RowsOf(user_settings', u) :
                         r.language = ev'.ret[1].value.language
                    /\ ev'.ret[1].hit => user_settings' = user_settings]_vars

\* A user whose stored language is "en" has just been answered the usage
\* hint by /setlang, and the stored language is still "en".
C9_Witness ==
  /\ ev.handler = "setlang"
  /\ ev.sent # <<>>
  /\ ev.sent[1].key = "usage_setlang"
  /\ ev.sent[1].lang = <<"e", "n">>
  /\ \E r \in RowsOf(user_settings, ev.user) : r.language = <<"e", "n">>
  /\ tasks = EmptyBag

\* C10: a command rejected with the usage hint (/anime, /movie, /setfooter or
\* /setlang with no argument, /setlang with an unsupported code) makes no
\* provider request and leaves the preference store (including which users
\* have a row), the cache, the search counter and the pending selections
\* as they were.
C10_RejectedCommandNoSideEffect ==
  [][(/\ ev'.sent # <<>>
      /\ ev'.sent[1].key \in {"usage_anime", "usage_movie", "usage_setfooter",
                               "usage_setlang"})
       => /\ ev'.http = <<>>
          /\ user_settings' = user_settings
          /\ cache' = cache
          /\ total_searches' = total_searches
          /\ user_data' = user_data]_vars

\* C11: however the store round-trips of get_user_settings, /setlang and
\* /setfooter of one user interleave, no user ever has more than one row, and
\* a set operation is idempotent: applying it once more to the store it has
\* just written leaves the store as it is.
C11_OneRowPerUserIdempotentSets ==
  [][/\ \A u \in Users : RowCount(user_settings', u) <= 1
     /\ \A task \in InFlight :
          /\ set_language(task) =>
               update_user_language(user_settings', task.user, task.args[1])
                 = user_settings'
          /\ set_footer(task) =>
               update_user_footer(user_settings', task.user, Join(task.args))
                 = user_settings']_vars

\* /setlang of a user has just stored "en" while another command of the same
\* user is between the SELECT and the INSERT of its get_user_settings.
C11_Witness ==
  /\ ev.handler = "setlang"
  /\ ev.sent # <<>>
  /\ ev.sent[1].key = "language_updated"
  /\ RowsOf(user_settings, ev.user) = {Row(ev.user, <<"e", "n">>, DDL_DEFAULT_FOOTER)}
  /\ RowCount(user_settings, ev.user) = 1
  /\ \E task \in InFlight : task.user = ev.user /\ task.pc = "insert_default"

\* C12: a set-language changes only the language and a set-footer only the
\* footer of the calling user's row, creating the row with the other field
\* at its default ("@WorldZPrime", "fr") if the user had none; every other
\* user's rows are unchanged, no step ever deletes a row, and the SELECT of
\* the next get_user_settings for that user finds the newly set value.
C12_SetChangesOnlyItsField ==
  [][/\ \A u \in Users : RowCount(user_settings', u) >= RowCount(user_settings, u)
     /\ (ev'.ret # None /\ ev'.ret[1].fn \in {"update_user_language", "update_user_footer"}) =>
          LET u == ev'.user
              x == ev'.ret[1].arg
              old == RowsOf(user_settings, u)
              lang == IF ev'.ret[1].fn = "update_user_language" THEN x
                      ELSE IF old = {} THEN <<"f", "r">>
                      ELSE (CHOOSE r \in old : TRUE).language
              footer == IF ev'.ret[1].fn = "update_user_footer" THEN x
                        ELSE IF old = {}
                          THEN <<"@", "W", "o", "r", "l", "d", "Z", "P", "r", "i", "m", "e">>
                        ELSE (CHOOSE r \in old : TRUE).footer
          IN /\ RowsOf(user_settings', u) = {Row(u, lang, footer)}
             /\ RowCount(user_settings', u) = 1
             /\ fetchrow(user_settings', u) = Some([language |-> lang, footer |-> footer])
             /\ \A w \in Users \ {u} :
                  /\ RowsOf(user_settings', w) = RowsOf(user_settings, w)
                  /\ RowCount(user_settings', w) = RowCount(user_settings, w)]_vars

\* Three set operations and no resolve: a set-language created one user's
\* row, a set-footer created another user's row, and a set-footer has just
\* changed the footer of the first row, whose language is still "en".
C12_Witness ==
  /\ updates = 3
  /\ ev.ret # None
  /\ ev.ret[1].fn = "update_user_footer"
  /\ ev.ret[1].arg = <<"X">>
  /\ RowsOf(user_settings, ev.user) = {Row(ev.user, <<"e", "n">>, <<"X">>)}
  /\ \E w \in Users \ {ev.user} :
       RowsOf(user_settings, w) = {Row(w, <<"f", "r">>, <<"Y">>)}

\* C13: a button press by a user other than the one encoded in the token
\* makes no provider request, leaves the pending selections of every user,
\* the cache, the search counter and the preference store unchanged, starts
\* nothing further, and sends or edits no message (the callback query is
\* only answered).
C13_ForeignPressNoOp ==
  [][\A token \in Tokens, fail \in FailIndexes :
       (/\ ev'.handler = "button"
        /\ ev'.user # token.uid
        /\ button_callback(ev'.user, token, fail))
         => /\ ev'.http = <<>>
            /\ user_data' = user_data
            /\ cache' = cache
            /\ total_searches' = total_searches
            /\ user_settings' = user_settings
            /\ tasks' = tasks
            /\ \A k \in 1..Len(ev'.sent) : ev'.sent[k].op = "answer"]_vars

\* A press has just been answered and nothing else was sent or requested,
\* while another user still has a pending selection.
C13_Witness ==
  /\ ev.handler = "button"
  /\ Len(ev.sent) = 1
  /\ ev.sent[1].op = "answer"
  /\ ev.http = <<>>
  /\ tasks = EmptyBag
  /\ \E u \in Users \ {ev.user} : DOMAIN user_data[u] # {}

\* C14: a pending selection is consumed exactly once.  A press that delivers
\* its record goes on to discard the pending selection (the user's task is
\* at the discard, and the discard is the step that follows and removes the
\* key); and a press by the initiating user that finds no pending selection
\* for its token (consumed, or never created) is answered with the
\* session-expired message, delivers no record and changes nothing.
C14_PendingSelectionConsumedOnce ==
  [][/\ (/\ ev'.handler = "button"
         /\ \E k \in 1..Len(ev'.sent) : ev'.sent[k].key \in {"anime_record", "movie_record"})
          => \E task \in BagToSet(tasks') : task.user = ev'.user /\ task.pc = "cleanup"
     /\ \A task \in InFlight :
          task.pc = "cleanup"
            => /\ cleanup(task)
               /\ PendingKey(task.token.media, task.token.uid)
                    \notin DOMAIN user_data'[task.user]
     /\ \A token \in Tokens, fail \in FailIndexes :
          (/\ ev'.handler = "button"
           /\ ev'.user = token.uid
           /\ PendingKey(token.media, token.uid) \notin DOMAIN user_data[token.uid]
           /\ button_callback(ev'.user, token, fail))
            => /\ Len(ev'.sent) = 2
               /\ ev'.sent[1].op = "answer"
               /\ ev'.sent[2].key = "session_expired"
               /\ ev'.http = <<>>
               /\ tasks' = tasks
               /\ user_data' = user_data]_vars

\* C15: pending selections are kept per (user, search): when the initiating
\* user presses button i of a prompt that is still on display, the record
\* delivered is candidate i of the result list of the search that produced
\* that prompt, whatever other searches the user has issued since (an anime
\* button carries the index i, a movie button the id of candidate i).
C15_SelectionOfOwnSearch ==
  [][/\ \A token \in Tokens, fail \in FailIndexes :
          (/\ ev'.handler = "button" /\ ev'.user = token.uid
           /\ button_callback(ev'.user, token, fail))
            => \A k \in 1..Len(ev'.sent) :
                 ev'.sent[k].key \in {"anime_record", "movie_record"}
                   => IF token.media = "anime"
                        THEN \A p \in prompted :
                               (p.uid = token.uid /\ token.num < Len(p.list))
                                 => ev'.sent[k].n = p.list[token.num + 1].id
                        ELSE ev'.sent[k].n = token.num
     /\ \A task \in InFlight :
          (/\ task.handler = "button" /\ task.pc = "details_http"
           /\ ev'.handler = "button" /\ ev'.user = task.user)
            => \A k \in 1..Len(ev'.sent) :
                 ev'.sent[k].key = "movie_record" => ev'.sent[k].n = task.token.num]_vars

\* C16: a search command stores a pending selection exactly when its search
\* returned two or more candidates, and the prompt it then sends has one
\* button per candidate, in result order, each token naming the provider, the
\* candidate (its index for anime, its id for movies) and the initiating
\* user; a search that returned no or one candidate sends no prompt and
\* leaves every pending selection as it was.  A search that returned
\* candidates goes on with exactly that list.
C16_PromptIffSeveralCandidates ==
  [][/\ \A task \in InFlight, fail \in FailIndexes :
          (task.pc = "present" /\ present(task, fail))
            => LET list == task.results[1]
                   u == task.user
                   key == PendingKey(task.handler, u)
               IN IF Len(list) >= 2
                    THEN /\ key \in DOMAIN user_data'[u]
                         /\ user_data'[u][key].settings = task.settings
                         /\ task.handler = "anime" => user_data'[u][key].results = list
                         /\ \A k \in DOMAIN user_data[u] \ {key} :
                              k \in DOMAIN user_data'[u] /\ user_data'[u][k] = user_data[u][k]
                         /\ \A v \in Users \ {u} : user_data'[v] = user_data[v]
                         /\ fail = 0
                              => /\ Len(ev'.sent) = 1
                                 /\ ev'.sent[1].key = "select_result"
                                 /\ Len(ev'.sent[1].buttons) = Len(list)
                                 /\ \A k \in 1..Len(list) :
                                      ev'.sent[1].buttons[k] =
                                        [media |-> task.handler,
                                         num |-> IF task.handler = "anime" THEN k - 1
                                                 ELSE list[k].id,
                                         uid |-> u]
                    ELSE /\ user_data' = user_data
                         /\ \A k \in 1..Len(ev'.sent) : ev'.sent[k].key # "select_result"
     /\ (/\ ev'.handler \in {"anime", "movie"}
         /\ ~\E task \in InFlight : task.pc = "present" /\ task.user = ev'.user)
          => /\ user_data' = user_data
             /\ \A k \in 1..Len(ev'.sent) : ev'.sent[k].key # "select_result"
     /\ (/\ ev'.handler \in {"anime", "movie"}
         /\ ev'.ret # None /\ ev'.ret[1].fn = "search")
          => IF Falsy(ev'.ret[1].value)
               THEN tasks' = EmptyBag
               ELSE \E task \in BagToSet(tasks') :
                      /\ task.user = ev'.user /\ task.pc = "increment_stat"
                      /\ task.results = ev'.ret[1].value]_vars

\* A /movie search with two candidates has just sent its prompt of two
\* buttons to a user whose anime selection is pending as well.
C16_Witness ==
  /\ ev.handler = "movie"
  /\ Len(ev.sent) = 1 /\ ev.sent[1].key = "select_result"
  /\ Len(ev.sent[1].buttons) = 2
  /\ PendingKey("movie", ev.user) \in DOMAIN user_data[ev.user]
  /\ PendingKey("anime", ev.user) \in DOMAIN user_data[ev.user]

\* C17: pending selections do not expire.  A step removes a pending
\* selection of user u only if it is the `del` of a button press of u
\* himself for that selection, right after the step that delivered the
\* record; a stored selection changes only when a later search of u for the
\* same provider stores its own; and as long as it is stored, a press of u
\* for it is never answered with the session-expired message.  So no other
\* command, no /clearcache, no press of another user and no selection that
\* failed (transport error, detail fetch failure) removes it.
C17_OnlyConsumptionRemoves ==
  [][/\ \A u \in Users : \A key \in DOMAIN user_data[u] :
          /\ key \notin DOMAIN user_data'[u]
               => \E task \in InFlight :
                    /\ task.pc = "cleanup" /\ task.user = u /\ task.token.uid = u
                    /\ key = PendingKey(task.token.media, u)
                    /\ cleanup(task)
                    /\ ev.handler = "button" /\ ev.user = u
                    /\ \E k \in 1..Len(ev.sent) :
                         /\ ev.sent[k].key = IF task.token.media = "anime"
                                               THEN "anime_record" ELSE "movie_record"
                         /\ ev.sent[k].op \in {"reply_photo_caption", "edit_text"}
          /\ (key \in DOMAIN user_data'[u] /\ user_data'[u][key] # user_data[u][key])
               => \E task \in InFlight :
                    /\ task.pc = "present" /\ task.user = u
                    /\ key = PendingKey(task.handler, u)
                    /\ Len(task.results[1]) >= 2
     /\ \A token \in Tokens, fail \in FailIndexes :
          (/\ ev'.handler = "button" /\ ev'.user = token.uid
           /\ PendingKey(token.media, token.uid) \in DOMAIN user_data[token.uid]
           /\ button_callback(ev'.user, token, fail))
            => \A k \in 1..Len(ev'.sent) : ev'.sent[k].key # "session_expired"]_vars

\* A selection of the initiating user has just failed on the detail fetch
\* and the pending selection is still stored.
C17_Witness ==
  /\ ev.handler = "button"
  /\ \E k \in 1..Len(ev.sent) : ev.sent[k].key = "details_error"
  /\ PendingKey("movie", ev.user) \in DOMAIN user_data[ev.user]
  /\ tasks = EmptyBag

\* C18: total_searches goes up by one exactly once for each /anime or /movie
\* command whose search returned at least one candidate, from the cache or
\* from upstream: such a return takes the command to increment_stat, nothing
\* else does, increment_stat adds one and the command moves on.  No other
\* step changes the counter (a search that returned nothing or failed, a
\* button press, any other command), and it never decreases.
C18_CountedOncePerSuccessfulSearch ==
  [][/\ total_searches' >= total_searches
     /\ total_searches' # total_searches
          => \E task \in InFlight :
               /\ task.handler \in {"anime", "movie"}
               /\ ~Falsy(task.results)
               /\ increment_stat(task)
     /\ \A task \in InFlight :
          task.pc = "increment_stat"
            => /\ total_searches' = total_searches + 1
               /\ tasks' = SetToBag({[task EXCEPT !.pc = "present"]})
     /\ (/\ ev'.handler \in {"anime", "movie"}
         /\ ev'.ret # None /\ ev'.ret[1].fn = "search" /\ ~Falsy(ev'.ret[1].value))
          => /\ total_searches' = total_searches
             /\ \E task \in BagToSet(tasks') : task.pc = "increment_stat"
     /\ \A task \in BagToSet(tasks') :
          (task.pc = "increment_stat" /\ task \notin InFlight)
            => /\ ev'.ret # None /\ ev'.ret[1].fn = "search"
               /\ ~Falsy(ev'.ret[1].value)]_vars

\* Two commands have been received, both searches for the same title at the
\* same provider; the second was served from the cache and has just been
\* counted too.
C18_Witness ==
  /\ updates = 2
  /\ total_searches = 2
  /\ \E task \in InFlight : task.pc = "present"
  /\ Cardinality(returned) = 1

\* C19: whatever an upstream exchange fails on (timeout, rejected status,
\* undecodable body) or when it matches nothing, search_anime, search_movie
\* and get_movie_details return to their caller, with None or an empty
\* value; and the /anime or /movie command whose search returned None or
\* an empty list answers with the no-results message in the caller's
\* language and is over, with the pending selections and the search counter
\* as they were.
C19_UpstreamFailureIsNoResult ==
  [][/\ \A task \in InFlight : \A resp \in Failures \cup {Ok(<<>>)} :
          (task.pc = "http" /\ search_response(task, resp))
            => /\ ev'.ret # None
               /\ ev'.ret[1].fn = "search"
               /\ ev'.ret[1].value \in {None, Some(<<>>)}
     /\ \A task \in InFlight, fail \in FailIndexes :
          \A resp \in Failures \cup {Ok(EmptyDict)} :
            (task.pc = "details_http" /\ details_response(task, resp, fail))
              => /\ ev'.ret # None
                 /\ ev'.ret[1].fn = "details"
                 /\ ev'.ret[1].value \in {None, Some(EmptyDict)}
                 /\ \A k \in 1..Len(ev'.sent) : ev'.sent[k].key # "movie_record"
     /\ \A task \in InFlight :
          (/\ task.handler \in {"anime", "movie"}
           /\ ev'.handler = task.handler /\ ev'.user = task.user
           /\ ev'.ret # None /\ ev'.ret[1].fn = "search"
           /\ ev'.ret[1].value \in {None, Some(<<>>)})
            => /\ ev'.sent = <<Edit("no_results", task.settings.language)>>
               /\ user_data' = user_data
               /\ total_searches' = total_searches
               /\ tasks' = EmptyBag]_vars

\* A search has just failed upstream and was answered with the no-results
\* message, for a user with a pending selection and after a counted search.
C19_Witness ==
  /\ ev.handler \in {"anime", "movie"}
  /\ ev.ret # None /\ ev.ret[1].fn = "search" /\ ev.ret[1].value = None
  /\ ev.sent # <<>> /\ ev.sent[1].key = "no_results"
  /\ total_searches = 1
  /\ DOMAIN user_data[ev.user] # {}

\* ------------------------------------------------ the star rating on its own
\* The rating line of format_anime(data, lang, footer) and
\* format_movie(data, lang, footer), for every score the providers can send:
\* AniList's averageScore is an integer percentage or null, TMDB's
\* vote_average a decimal number of points, taken here in tenths of a point.
ANIME_SCALE == 100
MOVIE_SCALE == 10

AnimeScores == {None} \cup {Some(s) : s \in 0..ANIME_SCALE}
MovieVotes == {None} \cup {Some(v) : v \in 0..(10 * MOVIE_SCALE)}

Filled == "filled"
Empty == "empty"
Unknown == <<"?">>

\* glyph * n: the empty string for n <= 0
Repeat(glyph, n) == [i \in 1..n |-> glyph]

\* score = data.get("averageScore")
\* rating = "*" * (score // 20) + "o" * (5 - score // 20) if score else "?"
anime_rating(score) ==
  IF score = None \/ score[1] = 0 THEN Unknown
  ELSE Repeat(Filled, score[1] \div 20) \o Repeat(Empty, 5 - score[1] \div 20)

\* vote = data.get("vote_average", 0)
\* rating = "*" * int(vote // 2) + "o" * (5 - int(vote // 2)) if vote >= 1 else "?"
movie_rating(vote_average) ==
  LET tenths == IF vote_average = None THEN 0 ELSE vote_average[1]
  IN IF tenths >= 10
       THEN Repeat(Filled, tenths \div 20) \o Repeat(Empty, 5 - tenths \div 20)
       ELSE Unknown

InitFormat ==
  /\ user_settings = EmptyBag
  /\ total_searches = 0
  /\ cache = <<>>
  /\ user_data = [u \in Users |-> <<>>]
  /\ tasks = EmptyBag
  /\ updates = 0
  /\ ev \in {Event(0, "call", <<>>, <<>>, Ret("rating", "anime", s, FALSE, None)) :
               s \in AnimeScores}
            \cup {Event(0, "call", <<>>, <<>>, Ret("rating", "movie", v, FALSE, None)) :
                    v \in MovieVotes}
  /\ returned = {}
  /\ prompted = {}
  /\ concurrent_updates = FALSE

call_format_anime ==
  /\ ev.ret[1].media = "anime" /\ ev.ret[1].value = None
  /\ ev' = [ev EXCEPT !.ret = Ret("rating", "anime", ev.ret[1].arg, FALSE,
                                  Some(anime_rating(ev.ret[1].arg)))]
  /\ UNCHANGED <<user_settings, total_searches, cache, user_data, tasks, updates,
                 concurrent_updates, returned, prompted>>

call_format_movie ==
  /\ ev.ret[1].media = "movie" /\ ev.ret[1].value = None
  /\ ev' = [ev EXCEPT !.ret = Ret("rating", "movie", ev.ret[1].arg, FALSE,
                                  Some(movie_rating(ev.ret[1].arg)))]
  /\ UNCHANGED <<user_settings, total_searches, cache, user_data, tasks, updates,
                 concurrent_updates, returned, prompted>>

FormatNext == call_format_anime \/ call_format_movie

SpecFormat == InitFormat /\ [][FormatNext]_vars

\* C20: for every score s on a scale with maximum m (averageScore with
\* m = 100, vote_average with m = 10) and 0 < s <= m, the rating rendered is
\* floor(5 * s / m) filled stars followed by empty stars up to five glyphs;
\* for an absent score and for s <= 0 it is the unknown sentinel "?".
C20_StarRating ==
  (ev.ret # None /\ ev.ret[1].fn = "rating" /\ ev.ret[1].value # None)
    => LET score == ev.ret[1].arg
           rating == ev.ret[1].value[1]
           m == IF ev.ret[1].media = "anime" THEN ANIME_SCALE ELSE 10 * MOVIE_SCALE
       IN IF score = None \/ score[1] <= 0
            THEN rating = Unknown
            ELSE score[1] <= m
                   => /\ Len(rating) = 5
                      /\ rating = Repeat(Filled, (5 * score[1]) \div m)
                                     \o Repeat(Empty, 5 - (5 * score[1]) \div m)

\* --------------------------------------------- the synopsis sanitizer on its own
\* sanitize_text(text, max_length=480), as format_anime and format_movie call
\* it on the provider's description / overview.  A text is a sequence of
\* characters.
MAX_LENGTH == 480
MaxPieces == 3
Margin == 2

Ellipsis == <<".", ".", ".">>

\* html.entities.html5, the entries the texts below can spell (with and,
\* for these legacy names, without the closing semicolon).
html5 ==
  (<<"a", "m", "p", ";">> :> "&") @@ (<<"a", "m", "p">> :> "&")
    @@ (<<"l", "t", ";">> :> "<") @@ (<<"l", "t">> :> "<")
    @@ (<<"g", "t", ";">> :> ">") @@ (<<"g", "t">> :> ">")

\* html._charref: the characters a named reference runs over,
\* [^\t\n\f <&#;]{1,32}
NameChar(c) == c \notin {" ", "<", "&", "#", ";"}

RECURSIVE RunLen(_, _, _)
RunLen(text, i, n) ==
  IF n < 32 /\ i + n <= Len(text) /\ NameChar(text[i + n])
    THEN RunLen(text, i, n + 1)
    ELSE n

\* html._replace_charref for a named reference s (the text after "&"): the
\* entity itself, else the longest proper prefix of at least two characters
\* that is an entity followed by the rest, else the reference unchanged.
replace_charref(s) ==
  IF s \in DOMAIN html5 THEN <<html5[s]>>
  ELSE LET xs == {x \in 2..(Len(s) - 1) : SubSeq(s, 1, x) \in DOMAIN html5}
       IN IF xs # {}
            THEN LET x == CHOOSE y \in xs : \A z \in xs : z <= y
                 IN <<html5[SubSeq(s, 1, x)]>> \o SubSeq(s, x + 1, Len(s))
            ELSE <<"&">> \o s

\* The first position from i on that holds character c, Len(text) + 1 if
\* there is none.
Find(text, c, i) ==
  LET at == {j \in i..Len(text) : text[j] = c}
  IN IF at = {} THEN Len(text) + 1 ELSE CHOOSE j \in at : \A k \in at : j <= k

\* html.unescape(text) from position i on: _charref.sub(_replace_charref, s)
\* copies the text up to the next "&" and replaces the reference there.
RECURSIVE unescape_from(_, _)
unescape_from(text, i) ==
  IF i > Len(text) THEN <<>>
  ELSE IF text[i] # "&"
    THEN SubSeq(text, i, Find(text, "&", i) - 1) \o unescape_from(text, Find(text, "&", i))
  ELSE LET n == RunLen(text, i + 1, 0)
           len == IF i + n + 1 <= Len(text) /\ text[i + n + 1] = ";" THEN n + 1 ELSE n
       IN IF n = 0
            THEN <<"&">> \o unescape_from(text, i + 1)
            ELSE replace_charref(SubSeq(text, i + 1, i + len))
                   \o unescape_from(text, i + len + 1)

unescape(text) == unescape_from(text, 1)

\* re.sub(r'<[^>]+>', '', text) from position i on: the text up to the next
\* "<" is copied; a "<" opens a match when the first ">" after it is at least
\* two characters away, and stays otherwise.
RECURSIVE strip_tags_from(_, _)
strip_tags_from(text, i) ==
  IF i > Len(text) THEN <<>>
  ELSE IF text[i] # "<"
    THEN SubSeq(text, i, Find(text, "<", i) - 1) \o strip_tags_from(text, Find(text, "<", i))
  ELSE LET first == Find(text, ">", i + 1)
       IN IF first <= Len(text) /\ first >= i + 2
            THEN strip_tags_from(text, first + 1)
            ELSE <<"<">> \o strip_tags_from(text, i + 1)

strip_tags(text) == strip_tags_from(text, 1)

\* (text[:max_length] + "...") if len(text) > max_length else (text or "")
truncate_FromLimit(text, max_length) ==
  IF Len(text) >= max_length THEN SubSeq(text, 1, max_length) \o Ellipsis ELSE text

truncate(text, max_length) ==
  IF Len(text) > max_length THEN SubSeq(text, 1, max_length) \o Ellipsis ELSE text

\* text = re.sub(r'<[^>]+>', '', html.unescape(text)).strip()
cleaned(text) == Strip(strip_tags(unescape(text)))

sanitize_text(text, max_length) == truncate(cleaned(text), max_length)

\* The texts: every concatenation of up to MaxPieces pieces (a letter, a
\* blank, a tag, escaped and bare entity names), and long runs of letters
\* around the limit with a piece before and after.
Pieces ==
  {<<"x">>, <<" ">>, <<"<", "b", ">">>, <<"&", "a", "m", "p", ";">>,
   <<"&", "l", "t", ";">>, <<"&", "g", "t", ";">>, <<"a", "m", "p", ";">>,
   <<"l", "t", ";">>}

RECURSIVE TextsOf(_)
TextsOf(n) ==
  IF n = 0 THEN {<<>>}
  ELSE LET shorter == TextsOf(n - 1)
       IN shorter \cup {p \o s : p \in Pieces, s \in shorter}

LongTexts ==
  {pre \o Repeat("x", n) \o post :
     pre \in Pieces \cup {<<>>}, post \in Pieces \cup {<<>>},
     n \in (MAX_LENGTH - Margin)..(MAX_LENGTH + Margin)}

SanitizeTexts == TextsOf(MaxPieces) \cup LongTexts

InitSanitize ==
  /\ user_settings = EmptyBag
  /\ total_searches = 0
  /\ cache = <<>>
  /\ user_data = [u \in Users |-> <<>>]
  /\ tasks = EmptyBag
  /\ updates = 0
  /\ ev \in {Event(0, "call", <<>>, <<>>, Ret("sanitize_text", "", text, FALSE, None)) :
               text \in SanitizeTexts}
  /\ returned = {}
  /\ prompted = {}
  /\ concurrent_updates = FALSE

\* sanitize_text(text)
call_sanitize_text ==
  /\ ev.ret[1].value = None
  /\ ev' = [ev EXCEPT !.ret = Ret("sanitize_text", "", ev.ret[1].arg, FALSE,
                                  Some(sanitize_text(ev.ret[1].arg, MAX_LENGTH)))]
  /\ UNCHANGED <<user_settings, total_searches, cache, user_data, tasks, updates,
                 concurrent_updates, returned, prompted>>

\* sanitize_text(result) for the result of the previous call
call_sanitize_text_again ==
  /\ ev.ret[1].value # None
  /\ ev' = [ev EXCEPT !.ret = Ret("sanitize_text", "", ev.ret[1].value[1], FALSE,
                                  Some(sanitize_text(ev.ret[1].value[1], MAX_LENGTH)))]
  /\ UNCHANGED <<user_settings, total_searches, cache, user_data, tasks, updates,
                 concurrent_updates, returned, prompted>>

SanitizeNext == call_sanitize_text \/ call_sanitize_text_again

SpecSanitize == InitSanitize /\ [][SanitizeNext]_vars

\* C21: sanitize_text returns the cleaned text (entities decoded, tags
\* removed, trimmed) unmodified when it has at most 480 characters, exactly
\* 480 included, and its first 480 characters followed by "..." when it has
\* more; the result never has more than 480 characters plus the marker.
C21_TruncationBoundary ==
  (ev.ret # None /\ ev.ret[1].fn = "sanitize_text" /\ ev.ret[1].value # None)
    => LET text == cleaned(ev.ret[1].arg)
           result == ev.ret[1].value[1]
       IN /\ Len(text) <= 480 => result = text
          /\ Len(text) > 480
               => /\ Len(result) = 483
                  /\ \A i \in 1..480 : result[i] = text[i]
                  /\ \A i \in 1..3 : result[480 + i] = "."
          /\ Len(result) <= 483

\* A text of exactly 480 characters once cleaned, wrapped in a tag and an
\* escaped entity that cleaning removes or shortens, was returned whole.
C21_Witness ==
  /\ ev.ret # None /\ ev.ret[1].fn = "sanitize_text" /\ ev.ret[1].value # None
  /\ Len(ev.ret[1].arg) > 483
  /\ Len(ev.ret[1].value[1]) = 480

\* C22: sanitizing is idempotent: sanitize_text applied to its own result
\* returns that result again, for every text, with escaped entities, tags,
\* surrounding blanks or more than 480 characters.
C22_SanitizeIdempotent ==
  [][(/\ ev.ret # None /\ ev.ret[1].fn = "sanitize_text" /\ ev.ret[1].value # None
      /\ ev'.ret[1].arg = ev.ret[1].value[1] /\ ev'.ret[1].value # None)
       => ev'.ret[1].value = ev.ret[1].value]_vars

\* C23: every /anime or /movie command of an authorized user with a title,
\* once it has sent the "searching" placeholder, eventually replaces it with
\* a user-facing outcome: the formatted record (edited in, or sent as a photo
\* caption with the placeholder deleted), the selection prompt, the
\* no-results message or an error message; whatever the search and the
\* detail fetch end in.
C23_SearchEndsInOutcome ==
  \A u \in AUTHORIZED_USER_IDS, n \in 1..MaxUpdates :
    (/\ updates = n /\ ev.user = u /\ ev.handler \in {"anime", "movie"}
     /\ \E k \in 1..Len(ev.sent) : ev.sent[k].key = "searching")
      ~> (/\ updates = n /\ ev.user = u /\ ev.handler \in {"anime", "movie"}
          /\ \E k \in 1..Len(ev.sent) :
               ev.sent[k].key \in {"anime_record", "movie_record", "select_result",
                                    "no_results", "error_sending", "error_unexpected"})

\* C24: when Telegram rejects a call that delivers a result in /anime, /movie
\* or a button selection, the handler catches it: the calls before the
\* rejected one have been sent, the last thing sent is the error message
\* (error_sending in the caller's language from the commands, the generic
\* "Erreur inattendue" from the button handler), the record text is not
\* sent after it, the handler is over in that step, and the preference
\* store, the search counter and every cache entry are as they were.
C24_TransportFailureCaught ==
  [][/\ \A task \in InFlight, fail \in FailIndexes \ {0} :
          (\/ task.pc = "present" /\ present(task, fail)
           \/ /\ task.pc = "details_http"
              /\ \E resp \in DetailsResponses(task.n) : details_response(task, resp, fail))
            => /\ Len(ev'.sent) = fail
               /\ ev'.sent[fail] =
                    IF task.handler = "button" THEN Edit("unexpected", FR)
                    ELSE Edit("error_sending", task.settings.language)
               /\ \A k \in 1..(fail - 1) :
                    ev'.sent[k].op \in {"reply_photo", "reply_photo_caption"}
               /\ tasks' = EmptyBag
               /\ user_settings' = user_settings
               /\ total_searches' = total_searches
               /\ \A key \in DOMAIN cache : key \in DOMAIN cache' /\ cache'[key] = cache[key]
     /\ \A token \in Tokens, fail \in FailIndexes \ {0} :
          (ev'.handler = "button" /\ button_callback(ev'.user, token, fail))
            => /\ Len(ev'.sent) = fail + 1
               /\ ev'.sent[1].op = "answer"
               /\ ev'.sent[fail + 1] = Edit("unexpected", FR)
               /\ \A k \in 2..fail :
                    ev'.sent[k].op \in {"reply_photo", "reply_photo_caption"}
               /\ tasks' = EmptyBag
               /\ user_settings' = user_settings
               /\ total_searches' = total_searches
               /\ cache' = cache]_vars

\* A button selection has sent the poster, the text that should follow was
\* rejected and the generic error was sent instead; the handler is over.
C24_Witness ==
  /\ ev.handler = "button"
  /\ Len(ev.sent) = 3
  /\ ev.sent[2].op = "reply_photo"
  /\ ev.sent[3] = Edit("unexpected", FR)
  /\ tasks = EmptyBag

\* C25: a formatted record is sent as the caption of a photo exactly when
\* the record has an image and the formatted text has at most 1024
\* characters; otherwise the text is sent as a message of its own, right
\* after the photo without caption when there is an image.  No step sends
\* the text twice, every delivery that Telegram accepts sends it once, and
\* no caption longer than 1024 characters is sent.
C25_CaptionOnlyWithinLimit ==
  [][LET texts == {k \in 1..Len(ev'.sent) :
                     ev'.sent[k].key \in {"anime_record", "movie_record"}}
     IN /\ \A k \in texts :
             LET msg == ev'.sent[k]
                 rec == CHOOSE r \in IF msg.key = "anime_record" THEN {A1, A2} ELSE {M1, M2} :
                          r.id = msg.n
                 length == rec.len + Len(msg.text)
             IN /\ msg.op = "reply_photo_caption" <=> (rec.img /\ length <= 1024)
                /\ msg.op # "reply_photo_caption"
                     => /\ msg.op = "edit_text"
                        /\ rec.img => (k > 1 /\ ev'.sent[k - 1].op = "reply_photo")
                        /\ ~rec.img => \A j \in 1..Len(ev'.sent) :
                                          ev'.sent[j].op # "reply_photo"
        /\ Cardinality(texts) <= 1
        /\ \A j \in 1..Len(ev'.sent) :
             ev'.sent[j].op \in {"reply_photo", "reply_photo_caption", "delete"}
               => \/ texts # {}
                  \/ ev'.sent[Len(ev'.sent)].key \in {"error_sending", "unexpected"}
        /\ (\E task \in BagToSet(tasks') : task.pc = "cleanup" /\ task \notin InFlight)
             => Cardinality(texts) = 1
        /\ \A task \in InFlight :
             (/\ task.handler = "anime" /\ task.pc = "present"
              /\ Len(task.results[1]) = 1 /\ present(task, 0))
               => Cardinality(texts) = 1]_vars

\* The poster of a movie record was sent without caption and the text, of
\* more than 1024 characters with the footer in use, after it; with a
\* shorter footer the same record fits a caption.
C25_Witness ==
  /\ ev.handler = "button"
  /\ Len(ev.sent) = 3
  /\ ev.sent[2].op = "reply_photo"
  /\ ev.sent[3].op = "edit_text" /\ ev.sent[3].key = "movie_record"
  /\ M2.len + Len(ev.sent[3].text) > 1024
  /\ M2.len + Len(<<"X">>) <= 1024

\* C26: the record a button selection delivers is formatted with the
\* language and footer stored with the pending selection, which are the
\* preferences the user had when the search command stored it; /setlang and
\* /setfooter change the stored preferences and leave every pending
\* selection, and so the record delivered later, as it was.
C26_SelectionUsesSnapshot ==
  [][/\ \A task \in InFlight :
          (task.pc = "present" /\ Len(task.results[1]) >= 2 /\ \E fail \in {0, 1} : present(task, fail))
            => /\ fetchrow(user_settings, task.user) # None
               /\ user_data'[task.user][PendingKey(task.handler, task.user)].settings
                    = [language |-> fetchrow(user_settings, task.user)[1].language,
                       footer |-> fetchrow(user_settings, task.user)[1].footer]
     /\ \A token \in Tokens, fail \in FailIndexes :
          (/\ ev'.handler = "button" /\ ev'.user = token.uid
           /\ PendingKey(token.media, token.uid) \in DOMAIN user_data[token.uid]
           /\ button_callback(ev'.user, token, fail))
            => LET snapshot == user_data[token.uid][PendingKey(token.media, token.uid)].settings
               IN /\ \A k \in 1..Len(ev'.sent) :
                       ev'.sent[k].key \in {"anime_record", "movie_record"}
                         => /\ ev'.sent[k].lang = snapshot.language
                            /\ ev'.sent[k].text = snapshot.footer
                  /\ \A task \in BagToSet(tasks') : task.settings = snapshot
     /\ \A task \in InFlight :
          (task.handler = "button" /\ task.pc = "details_http" /\ ev'.handler = "button")
            => \A k \in 1..Len(ev'.sent) :
                 ev'.sent[k].key = "movie_record"
                   => /\ ev'.sent[k].lang = task.settings.language
                      /\ ev'.sent[k].text = task.settings.footer
     /\ ev'.handler \in {"setlang", "setfooter"} => user_data' = user_data
     /\ (ev'.ret # None /\ ev'.ret[1].fn = "update_user_language")
          => fetchrow(user_settings', ev'.user)[1].language = ev'.ret[1].arg
     /\ (ev'.ret # None /\ ev'.ret[1].fn = "update_user_footer")
          => fetchrow(user_settings', ev'.user)[1].footer = ev'.ret[1].arg]_vars

\* A selection has just delivered its record in French with the default
\* footer to a user whose stored language is English by now.
C26_Witness ==
  /\ ev.handler = "button"
  /\ \E k \in 1..Len(ev.sent) :
       /\ ev.sent[k].key \in {"anime_record", "movie_record"}
       /\ ev.sent[k].lang = FR
  /\ fetchrow(user_settings, ev.user) # None
  /\ fetchrow(user_settings, ev.user)[1].language = EN

====
